---- MODULE Spec2Model ----
(***************************************************************************)
(* Model of the event pipeline of calender_bot:                            *)
(*   src/mcp_calendar.py  MCPCalendarManager (validate_event_data,         *)
(*                        format_event_for_gcal, add_event_via_mcp,         *)
(*                        _simulate_mcp_call, batch_add_events)             *)
(*   src/app.py           EventScrapingAgent (add_event_to_calendar,        *)
(*                        process_events)                                   *)
(*                                                                         *)
(* Python values are records [t |-> type name, s |-> characters]; a str is *)
(* the sequence of its characters, so that formatting and parsing are      *)
(* computed and not assumed.  A dict is a function whose DOMAIN is the set *)
(* of keys it holds: a missing key is a key outside the DOMAIN, which is   *)
(* not the same thing as a key holding None or "".                         *)
(***************************************************************************)
EXTENDS Integers, Sequences, FiniteSets, TLC

VARIABLES caller, events, pc, idx, results, valid, gcal, ret, sinkCalls, log,
          escaped, norm,
          urls, page, scraped, demo, reply, summary, input

\* the state of EventScrapingAgent.run_agent around its call of
\* process_events; input keeps the candidate records as they were handed in
agentVars == <<urls, page, scraped, demo, reply, summary, input>>

vars == <<caller, events, pc, idx, results, valid, gcal, ret, sinkCalls, log,
          escaped, norm, agentVars>>

-----------------------------------------------------------------------------
(* Bounds of the model.                                                    *)

\* longest batch handed to process_events / batch_add_events
MaxBatch == 2

\* most direct calls of format_event_for_gcal made by one caller
MaxNorm == 2

-----------------------------------------------------------------------------
(* Python values.                                                          *)

PyStr(s) == [t |-> "str", s |-> s]

PyNone == [t |-> "NoneType", s |-> <<>>]

\* a number, as json.loads produces for an unquoted 20250601
PyInt(s) == [t |-> "int", s |-> s]

\* a JSON array of one-character strings, as json.loads produces for ["a"]
PyList(s) == [t |-> "list", s |-> s]

\* bool(v): None, "" and [] are falsy; the numbers used here are non-zero
Truthy(v) == \/ v.t \in {"str", "list"} /\ v.s # <<>>
             \/ v.t = "int"

\* str(v), as an f-string renders v
Str(v) == IF v.t = "NoneType" THEN <<"N", "o", "n", "e">> ELSE v.s

\* event.get(key, default)
Get(event, key, default) == IF key \in DOMAIN event THEN event[key] ELSE default

-----------------------------------------------------------------------------
(* datetime: the calendar, datetime.fromisoformat, + timedelta(hours=1),   *)
(* datetime.isoformat.  fromisoformat is modelled on the shapes every      *)
(* CPython from 3.7 on treats alike: YYYY-MM-DD, optionally followed by    *)
(* one separator character and HH, HH:MM or HH:MM:SS.                      *)

DigitChars == <<"0", "1", "2", "3", "4", "5", "6", "7", "8", "9">>

IsDigit(c) == \E d \in 1..10 : DigitChars[d] = c

DigitVal(c) == (CHOOSE d \in 1..10 : DigitChars[d] = c) - 1

AllDigits(s, from, to) == \A k \in from..to : IsDigit(s[k])

RECURSIVE Num(_, _, _)
Num(s, from, to) ==
    IF to < from THEN 0 ELSE 10 * Num(s, from, to - 1) + DigitVal(s[to])

IsLeap(y) == (y % 4 = 0) /\ ((y % 100 # 0) \/ (y % 400 = 0))

DaysInMonth(y, m) ==
    IF m = 2 THEN (IF IsLeap(y) THEN 29 ELSE 28)
    ELSE IF m \in {4, 6, 9, 11} THEN 30 ELSE 31

NoDateTime == [year |-> 0, month |-> 0, day |-> 0,
               hour |-> 0, minute |-> 0, second |-> 0]

\* the HH[:MM[:SS]] part of an ISO string, characters from..Len(s)
TimeShapeOK(s, from) ==
    LET n == Len(s) - from + 1 IN
    /\ n \in {2, 5, 8}
    /\ AllDigits(s, from, from + 1)
    /\ n >= 5 => (s[from + 2] = ":" /\ AllDigits(s, from + 3, from + 4))
    /\ n >= 8 => (s[from + 5] = ":" /\ AllDigits(s, from + 6, from + 7))

\* datetime.fromisoformat(v): [exc, dt]
fromisoformat(v) ==
    IF v.t # "str" THEN [exc |-> "TypeError", dt |-> NoDateTime]
    ELSE
    LET s == v.s
        n == Len(s)
        bad == [exc |-> "ValueError", dt |-> NoDateTime]
    IN
    IF n < 10 THEN bad
    ELSE IF ~(AllDigits(s, 1, 4) /\ s[5] = "-" /\ AllDigits(s, 6, 7)
              /\ s[8] = "-" /\ AllDigits(s, 9, 10)) THEN bad
    ELSE IF n = 11 \/ (n > 11 /\ ~TimeShapeOK(s, 12)) THEN bad
    ELSE
    LET y == Num(s, 1, 4)
        m == Num(s, 6, 7)
        d == Num(s, 9, 10)
        H == IF n > 10 THEN Num(s, 12, 13) ELSE 0
        M == IF n >= 16 THEN Num(s, 15, 16) ELSE 0
        S == IF n >= 19 THEN Num(s, 18, 19) ELSE 0
    IN
    IF /\ y \in 1..9999
       /\ m \in 1..12
       /\ d >= 1
       /\ d <= DaysInMonth(y, m)
       /\ H <= 23
       /\ M <= 59
       /\ S <= 59
    THEN [exc |-> "none",
          dt |-> [year |-> y, month |-> m, day |-> d,
                  hour |-> H, minute |-> M, second |-> S]]
    ELSE bad

\* start_dt + timedelta(hours=1): [exc, dt]
\* the hour advanced on the clock alone, the date left as it is
AddOneHourNoCarry(dt) ==
    [exc |-> "none", dt |-> [dt EXCEPT !.hour = (dt.hour + 1) % 24]]

AddOneHour(dt) ==
    IF dt.hour < 23
    THEN [exc |-> "none", dt |-> [dt EXCEPT !.hour = dt.hour + 1]]
    ELSE IF dt.day < DaysInMonth(dt.year, dt.month)
    THEN [exc |-> "none", dt |-> [dt EXCEPT !.hour = 0, !.day = dt.day + 1]]
    ELSE IF dt.month < 12
    THEN [exc |-> "none",
          dt |-> [dt EXCEPT !.hour = 0, !.day = 1, !.month = dt.month + 1]]
    ELSE IF dt.year < 9999
    THEN [exc |-> "none",
          dt |-> [dt EXCEPT !.hour = 0, !.day = 1, !.month = 1,
                            !.year = dt.year + 1]]
    ELSE [exc |-> "OverflowError", dt |-> NoDateTime]

Pad2(n) == <<DigitChars[(n \div 10) + 1], DigitChars[(n % 10) + 1]>>

Pad4(n) == Pad2(n \div 100) \o Pad2(n % 100)

\* dt.isoformat() of a datetime without microseconds or tzinfo
isoformat(dt) ==
    Pad4(dt.year) \o <<"-">> \o Pad2(dt.month) \o <<"-">> \o Pad2(dt.day)
    \o <<"T">> \o Pad2(dt.hour) \o <<":">> \o Pad2(dt.minute)
    \o <<":">> \o Pad2(dt.second)

-----------------------------------------------------------------------------
(* Outcome of a call: a returned value, or the exception it raised.        *)

Return(v) == [exc |-> "none", val |-> v]

Raise(e) == [exc |-> e]

NotCalled == [exc |-> "notcalled"]

-----------------------------------------------------------------------------
(* MCPCalendarManager.validate_event_data                                  *)

Fields == {"title", "start_date", "start_time", "end_date", "end_time",
           "description", "location", "url", "organizer"}

\* an event is a dict (keys among Fields) or, from loose JSON, a bare number
IsDict(event) == "t" \notin DOMAIN event

required_fields == <<"title", "start_date">>

\* the loop of lines 36-39: some required field is missing or falsy
MissingRequired(event) ==
    \E k \in 1..Len(required_fields) :
        \/ required_fields[k] \notin DOMAIN event
        \/ ~Truthy(event[required_fields[k]])

\* validate_event_data were start_date the only required field
validate_event_data_no_title(event) ==
    IF ~IsDict(event) THEN Raise("TypeError")
    ELSE IF "start_date" \notin DOMAIN event \/ ~Truthy(event["start_date"])
    THEN Return(FALSE)
    ELSE LET p == fromisoformat(event["start_date"]) IN
         IF p.exc = "none" THEN Return(TRUE)
         ELSE IF p.exc = "ValueError" THEN Return(FALSE)
         ELSE Raise(p.exc)

validate_event_data(event) ==
    IF ~IsDict(event) THEN Raise("TypeError")
    ELSE IF MissingRequired(event) THEN Return(FALSE)
    ELSE LET p == fromisoformat(event["start_date"]) IN
         IF p.exc = "none" THEN Return(TRUE)
         ELSE IF p.exc = "ValueError" THEN Return(FALSE)
         ELSE Raise(p.exc)

-----------------------------------------------------------------------------
(* MCPCalendarManager.format_event_for_gcal                                *)

UTC == PyStr(<<"U", "T", "C">>)

Untitled == PyStr(<<"U", "n", "t", "i", "t", "l", "e", "d", " ",
                    "E", "v", "e", "n", "t">>)

SourcePrefix == <<"\n", "\n", "S", "o", "u", "r", "c", "e", ":", " ">>

\* f"{date}T{time}:00"
DateTimeString(date, time) ==
    Str(date) \o <<"T">> \o Str(time) \o <<":", "0", "0">>

Timed(s) == [dateTime |-> PyStr(s), timeZone |-> UTC]

AllDay(date) == [date |-> date]

\* lines 66-81
StartOf(event) ==
    LET start_date == Get(event, "start_date", PyNone)
        start_time == Get(event, "start_time", PyNone)
    IN  IF Truthy(start_time)
        THEN Timed(DateTimeString(start_date, start_time))
        ELSE AllDay(start_date)

\* lines 83-106
EndOf(event) ==
    LET start_date == Get(event, "start_date", PyNone)
        start_time == Get(event, "start_time", PyNone)
        end_date == Get(event, "end_date", start_date)
        end_time == Get(event, "end_time", PyNone)
    IN  IF Truthy(end_time)
        THEN Return(Timed(DateTimeString(end_date, end_time)))
        ELSE IF Truthy(start_time)
        THEN LET start_dt ==
                     fromisoformat(PyStr(DateTimeString(start_date, start_time)))
             IN  IF start_dt.exc # "none" THEN Raise(start_dt.exc)
                 ELSE LET end_dt == AddOneHour(start_dt.dt) IN
                      IF end_dt.exc # "none" THEN Raise(end_dt.exc)
                      ELSE Return(Timed(isoformat(end_dt.dt)))
        ELSE Return(AllDay(end_date))

\* lines 63 and 112-115: description, then += "\n\nSource: {url}"
DescriptionOf(event) ==
    LET description == Get(event, "description", PyStr(<<>>))
        url == Get(event, "url", PyNone)
    IN  IF ~Truthy(url) THEN Return(description)
        ELSE IF description.t = "str"
        THEN Return(PyStr(description.s \o SourcePrefix \o Str(url)))
        ELSE IF description.t = "list"
        THEN Return(PyList(description.s \o SourcePrefix \o Str(url)))
        ELSE Raise("TypeError")

format_event_for_gcal(event) ==
    LET end == EndOf(event)
        description == DescriptionOf(event)
        location == Get(event, "location", PyNone)
        gcal_event == [summary |-> Get(event, "title", Untitled),
                       description |-> description.val,
                       start |-> StartOf(event),
                       end |-> end.val]
    IN  IF end.exc # "none" THEN Raise(end.exc)
        ELSE IF description.exc # "none" THEN Raise(description.exc)
        ELSE IF Truthy(location)
        THEN Return(gcal_event @@ ("location" :> location))
        ELSE Return(gcal_event)

\* The event as the call leaves it.  gcal_event['description'] is the very
\* object event['description']; for a str, += rebinds the key of gcal_event
\* only, while for a list += extends that shared list in place.
EventAfterFormat(event) ==
    LET description == Get(event, "description", PyStr(<<>>))
        url == Get(event, "url", PyNone)
    IN  IF /\ EndOf(event).exc = "none"
           /\ Truthy(url)
           /\ description.t = "list"
        THEN [event EXCEPT !["description"] =
                  PyList(description.s \o SourcePrefix \o Str(url))]
        ELSE event

-----------------------------------------------------------------------------
(* Candidate records: what json.loads hands to process_events.             *)

Absent == [t |-> "absent", s |-> <<>>]

\* the dict holding the keys of f that are not Absent
MkEvent(f) == [k \in {x \in Fields : f[x] # Absent} |-> f[k]]

DateStr(y, m, d) == PyStr(Pad4(y) \o <<"-">> \o Pad2(m) \o <<"-">> \o Pad2(d))

TimeStr(h, m) == PyStr(Pad2(h) \o <<":">> \o Pad2(m))

TitleX == PyStr(<<"X">>)

Jun1 == DateStr(2025, 6, 1)

Jun1T14 == PyStr(Jun1.s \o <<"T", "1", "4", ":", "0", "0">>)

NotADate == PyStr(<<"n", "o", "t", "-", "a", "-", "d", "a", "t", "e">>)

TwoPm == PyStr(<<"2", "p", "m">>)

BadTime == PyStr(<<"b", "a", "d">>)

GreatTalk == PyStr(<<"G", "r", "e", "a", "t", " ", "t", "a", "l", "k">>)

SrcUrl == PyStr(<<"h", "t", "t", "p", "s", ":", "/", "/", "e">>)

Hall == PyStr(<<"H", "a", "l", "l">>)

Org == PyStr(<<"O", "r", "g">>)

NoOthers == [start_time |-> Absent, end_date |-> Absent, end_time |-> Absent,
             description |-> Absent, location |-> Absent, url |-> Absent,
             organizer |-> Absent]

\* the fields validate_event_data does not read: none, well-formed, malformed
OtherProfiles ==
    { NoOthers,
      [start_time |-> TimeStr(14, 0), end_date |-> Jun1,
       end_time |-> TimeStr(16, 0), description |-> GreatTalk,
       location |-> Hall, url |-> SrcUrl, organizer |-> Org],
      [start_time |-> TwoPm, end_date |-> PyNone, end_time |-> BadTime,
       description |-> PyNone, location |-> PyStr(<<>>), url |-> PyNone,
       organizer |-> PyNone] }

With(o, title, start_date) ==
    MkEvent([title |-> title, start_date |-> start_date,
             start_time |-> o.start_time, end_date |-> o.end_date,
             end_time |-> o.end_time, description |-> o.description,
             location |-> o.location, url |-> o.url,
             organizer |-> o.organizer])

ValidationFamily ==
    { With(o, t, sd) :
        o \in OtherProfiles,
        t \in {Absent, PyNone, PyStr(<<>>), TitleX},
        sd \in {Absent, PyNone, PyStr(<<>>), Jun1, DateStr(2025, 2, 30),
                DateStr(2024, 2, 29), DateStr(2025, 13, 1), NotADate,
                PyStr(<<"n", "o">>), Jun1T14, PyInt(<<"2", "0", "2", "5">>),
                PyList(<<"2">>)} }

ScheduleFamily ==
    { With([NoOthers EXCEPT !.start_time = st, !.end_date = ed,
                            !.end_time = et], TitleX, sd) :
        sd \in {Jun1, DateStr(2024, 2, 28), DateStr(2025, 12, 31),
                DateStr(9999, 12, 31), Jun1T14},
        st \in {Absent, PyNone, PyStr(<<>>), TimeStr(14, 0), TimeStr(23, 30),
                TwoPm, PyStr(<<"1", "4">>)},
        ed \in {Absent, PyNone, PyStr(<<>>), DateStr(2025, 7, 6),
                DateStr(2025, 5, 1)},
        et \in {Absent, PyStr(<<>>), TimeStr(15, 0), BadTime} }

DescriptionFamily ==
    { With([NoOthers EXCEPT !.description = d, !.url = u, !.location = l,
                            !.start_time = st], TitleX, Jun1) :
        d \in {Absent, PyNone, PyStr(<<>>), GreatTalk, PyList(<<"a">>)},
        u \in {Absent, PyNone, PyStr(<<>>), SrcUrl},
        l \in {Absent, PyStr(<<>>), Hall},
        st \in {Absent, TwoPm} }

\* the sample event of EventScrapingAgent._generate_demo_events
DemoEvent ==
    With([start_time |-> TimeStr(14, 0), end_date |-> DateStr(2025, 11, 15),
          end_time |-> TimeStr(16, 0), description |-> GreatTalk,
          location |-> Hall, url |-> SrcUrl, organizer |-> Absent],
         TitleX, DateStr(2025, 11, 15))

\* a JSON array element that is no object
NotADictEvent == PyInt(<<"7">>)

\* one record of every way a record can end in a batch
BatchPool ==
    { DemoEvent,
      With(NoOthers, TitleX, Jun1),
      With(NoOthers, Absent, Jun1),
      With(NoOthers, TitleX, PyInt(<<"2", "0", "2", "5">>)),
      With([NoOthers EXCEPT !.start_time = TwoPm], TitleX, Jun1),
      With([NoOthers EXCEPT !.description = PyNone, !.url = SrcUrl],
           TitleX, Jun1),
      With([NoOthers EXCEPT !.description = PyList(<<"a">>), !.url = SrcUrl],
           TitleX, Jun1),
      NotADictEvent }

Batches ==
    UNION { [1..n -> BatchPool] : n \in 0..MaxBatch }
    \cup { <<e>> : e \in ValidationFamily \cup ScheduleFamily
                         \cup DescriptionFamily }

\* records handed straight to format_event_for_gcal by a caller of its own
NormInputs == [1..2 -> { e \in BatchPool : validate_event_data(e) = Return(TRUE) }]

-----------------------------------------------------------------------------
(* The calendar sink, MCPCalendarManager._simulate_mcp_call.  The shipped  *)
(* stub returns True; it stands for the real MCP call ("you can change     *)
(* this for testing failures"), which may also report failure or raise.    *)

SinkOutcomes == {"True", "False", "raise"}

-----------------------------------------------------------------------------
(* Exception handlers.                                                     *)

\* the classes raised here, every one a subclass of Exception
ExceptionClasses ==
    {"Exception", "TypeError", "ValueError", "OverflowError", "AttributeError"}

\* a handler written "except ValueError"
CatchesValueErrorOnly(exc) == exc = "ValueError"

\* add_event_via_mcp: except Exception (line 154)
CaughtBy_add_event_via_mcp(exc) == exc \in ExceptionClasses

\* add_event_to_calendar: except Exception (line 211)
CaughtBy_add_event_to_calendar(exc) == exc \in ExceptionClasses

\* the loop running is that of process_events, called directly or by
\* run_agent, so each record goes through add_event_to_calendar
ThroughAgent == caller \in {"process_events", "run_agent"}

\* exc, raised inside add_event_via_mcp's try block, reaches the batch loop
Escapes(exc) ==
    /\ ~CaughtBy_add_event_via_mcp(exc)
    /\ ~(ThroughAgent /\ CaughtBy_add_event_to_calendar(exc))

\* what the handlers make of exc: the record's call returns False, or the
\* exception leaves the batch loop
AfterRaise(exc, stage) ==
    /\ log' = Append(log, stage)
    /\ IF Escapes(exc)
       THEN pc' = "raised" /\ escaped' = TRUE /\ ret' = ret
       ELSE pc' = "count" /\ escaped' = escaped /\ ret' = FALSE

-----------------------------------------------------------------------------
(* The state machine.  caller is the entry point driven: process_events    *)
(* (app.py), batch_add_events (mcp_calendar.py), or format_event_for_gcal  *)
(* called directly.  pc is the position inside the batch loop.             *)

BatchCallers == {"process_events", "batch_add_events"}

NoResults == [successful |-> 0, failed |-> 0]

Init ==
    /\ \/ caller \in BatchCallers /\ events \in Batches
       \/ caller = "format_event_for_gcal" /\ events \in NormInputs
    /\ pc = "idle"
    /\ idx = 0
    /\ results = NoResults
    /\ valid = NotCalled
    /\ gcal = NotCalled
    /\ ret = FALSE
    /\ sinkCalls = <<>>
    /\ log = <<>>
    /\ escaped = FALSE
    /\ norm = <<>>
    /\ urls = <<>>
    /\ page = 0
    /\ scraped = <<>>
    /\ demo = FALSE
    /\ reply = "none"
    /\ summary = NotCalled
    /\ input = events

\* results = {"successful": 0, "failed": 0}; for event in events:
Start ==
    /\ pc = "idle"
    /\ caller \in BatchCallers
    /\ pc' = "loop"
    /\ idx' = 1
    /\ results' = NoResults
    /\ UNCHANGED agentVars
    /\ UNCHANGED <<caller, events, valid, gcal, ret, sinkCalls, log, escaped,
                   norm>>

\* the loop takes the next event.  process_events goes through
\* add_event_to_calendar, whose event.get(...) (line 199) raises
\* AttributeError on a non-dict inside its own try block.
NextEvent ==
    /\ pc = "loop"
    /\ idx <= Len(events)
    /\ valid' = NotCalled
    /\ gcal' = NotCalled
    /\ IF ThroughAgent /\ ~IsDict(events[idx])
       THEN /\ log' = Append(log, "not_a_dict")
            /\ IF CaughtBy_add_event_to_calendar("AttributeError")
               THEN pc' = "count" /\ ret' = FALSE /\ escaped' = escaped
               ELSE pc' = "raised" /\ ret' = ret /\ escaped' = TRUE
       ELSE pc' = "validate" /\ UNCHANGED <<log, ret, escaped>>
    /\ UNCHANGED agentVars
    /\ UNCHANGED <<caller, events, idx, results, sinkCalls, norm>>

\* lines 131-132 without the return on a False verdict
ValidateAndGoOn ==
    /\ pc = "validate"
    /\ \E v \in {validate_event_data(events[idx])} :
       /\ valid' = v
       /\ IF v.exc # "none" THEN AfterRaise(v.exc, "validate_raised")
          ELSE pc' = "format" /\ UNCHANGED <<log, ret, escaped>>
    /\ UNCHANGED agentVars
    /\ UNCHANGED <<caller, events, idx, results, gcal, sinkCalls, norm>>

\* add_event_via_mcp, lines 131-132
Validate ==
    /\ pc = "validate"
    /\ \E v \in {validate_event_data(events[idx])} :
       /\ valid' = v
       /\ IF v.exc # "none" THEN AfterRaise(v.exc, "validate_raised")
          ELSE IF v.val THEN pc' = "format" /\ UNCHANGED <<log, ret, escaped>>
          ELSE /\ pc' = "count"
               /\ ret' = FALSE
               /\ log' = Append(log, "invalid")
               /\ UNCHANGED escaped
    /\ UNCHANGED agentVars
    /\ UNCHANGED <<caller, events, idx, results, gcal, sinkCalls, norm>>

\* add_event_via_mcp, line 135
Format ==
    /\ pc = "format"
    /\ \E g \in {format_event_for_gcal(events[idx])} :
       /\ gcal' = g
       /\ IF g.exc # "none" THEN AfterRaise(g.exc, "format_raised")
          ELSE pc' = "sink" /\ UNCHANGED <<log, ret, escaped>>
    /\ events' = [events EXCEPT ![idx] = EventAfterFormat(@)]
    /\ UNCHANGED agentVars
    /\ UNCHANGED <<caller, idx, results, valid, sinkCalls, norm>>

\* add_event_via_mcp, lines 145-152
Sink ==
    /\ pc = "sink"
    /\ \E outcome \in SinkOutcomes :
        /\ sinkCalls' = Append(sinkCalls, [rec |-> idx, event |-> gcal.val,
                                           outcome |-> outcome])
        /\ IF outcome = "raise" THEN AfterRaise("Exception", "sink_raised")
           ELSE /\ pc' = "count"
                /\ ret' = (outcome = "True")
                /\ log' = Append(log, IF outcome = "True" THEN "added"
                                      ELSE "sink_false")
                /\ UNCHANGED escaped
    /\ UNCHANGED agentVars
    /\ UNCHANGED <<caller, events, idx, results, valid, gcal, norm>>

\* the loop body without its else branch
CountSuccessOnly ==
    /\ pc = "count"
    /\ results' = IF ret
                  THEN [results EXCEPT !.successful = @ + 1]
                  ELSE results
    /\ idx' = idx + 1
    /\ pc' = "loop"
    /\ UNCHANGED agentVars
    /\ UNCHANGED <<caller, events, valid, gcal, ret, sinkCalls, log, escaped,
                   norm>>

\* results["successful"] += 1 / results["failed"] += 1
Count ==
    /\ pc = "count"
    /\ results' = IF ret
                  THEN [results EXCEPT !.successful = @ + 1]
                  ELSE [results EXCEPT !.failed = @ + 1]
    /\ idx' = idx + 1
    /\ pc' = "loop"
    /\ UNCHANGED agentVars
    /\ UNCHANGED <<caller, events, valid, gcal, ret, sinkCalls, log, escaped,
                   norm>>

\* return results
ReturnResults ==
    /\ pc = "loop"
    /\ idx > Len(events)
    /\ pc' = "done"
    /\ UNCHANGED agentVars
    /\ UNCHANGED <<caller, events, idx, results, valid, gcal, ret, sinkCalls,
                   log, escaped, norm>>

\* a direct call of format_event_for_gcal on record k; norm keeps what each
\* call returned, as it was when the call returned
Normalize ==
    /\ caller = "format_event_for_gcal"
    /\ Len(norm) < MaxNorm
    /\ \E k \in 1..Len(events) :
        /\ norm' = Append(norm, [rec |-> k,
                                 out |-> format_event_for_gcal(events[k])])
        /\ events' = [events EXCEPT ![k] = EventAfterFormat(@)]
    /\ UNCHANGED agentVars
    /\ UNCHANGED <<caller, pc, idx, results, valid, gcal, ret, sinkCalls, log,
                   escaped>>

Next ==
    \/ Start
    \/ NextEvent
    \/ Validate
    \/ Format
    \/ Sink
    \/ Count
    \/ ReturnResults
    \/ Normalize

Spec == Init /\ [][Next]_vars

-----------------------------------------------------------------------------
(* EventScrapingAgent.run_agent: scrape every URL, extract the candidate   *)
(* records in one call, hand them to process_events, build the summary.    *)

\* most URLs handed to run_agent
MaxUrls == 2

OtherUrl == PyStr(<<"h", "t", "t", "p", "s", ":", "/", "/", "f">>)

Urls == {SrcUrl, OtherUrl}

UrlLists == UNION { [1..n -> Urls] : n \in 0..MaxUrls }

\* requests.get / raise_for_status / BeautifulSoup return or raise
FetchOutcomes == {"ok", "raise"}

\* what scrape_webpage returns: the page text, or after a caught exception
\* the marker "Error scraping {url}: ..."; long is len(content) > 100
Content(fetch, long) ==
    [kind |-> IF fetch = "ok" THEN "text" ELSE "error", long |-> long]

\* scrape_webpage: except Exception (line 77)
CaughtBy_scrape_webpage(exc) == exc \in ExceptionClasses

\* a handler that catches only what json.loads raises
CatchesJsonErrorsOnly(exc) == exc = "ValueError"

\* extract_events_with_gemini: except Exception (line 164)
CaughtBy_extract_events(exc) == exc \in ExceptionClasses

\* scraped_data[url] = content
SetItem(d, k, v) == [x \in DOMAIN d \cup {k} |-> IF x = k THEN v ELSE d[x]]

\* the records a reply of the model can hold
AgentPool ==
    { With(NoOthers, TitleX, Jun1),
      With(NoOthers, Absent, Jun1),
      With([NoOthers EXCEPT !.description = PyList(<<"a">>), !.url = SrcUrl],
           TitleX, Jun1) }

AgentLists == UNION { [1..n -> AgentPool] : n \in 0..MaxBatch }

\* the outcome of the Gemini branch of extract_events_with_gemini: the call
\* or json.loads raises, the reply holds no JSON array, or it holds one
ExtractorReplies ==
    { [kind |-> "raise", exc |-> e, events |-> <<>>] :
          e \in {"Exception", "ValueError"} }
    \cup { [kind |-> "no_json", exc |-> "none", events |-> <<>>] }
    \cup { [kind |-> "json", exc |-> "none", events |-> l] : l \in AgentLists }

\* _generate_demo_events: one sample event, its url the first key of
\* scraped_content (the first URL scraped: a dict keeps insertion order)
generate_demo_events(content) ==
    IF \E k \in DOMAIN content : content[k].long
    THEN <<[DemoEvent EXCEPT !["url"] = urls[1]]>>
    ELSE <<>>

InitAgent ==
    /\ caller = "run_agent"
    /\ urls \in UrlLists
    /\ demo \in BOOLEAN
    /\ events = <<>>
    /\ input = <<>>
    /\ pc = "idle"
    /\ idx = 0
    /\ page = 0
    /\ scraped = <<>>
    /\ reply = "none"
    /\ summary = NotCalled
    /\ results = NoResults
    /\ valid = NotCalled
    /\ gcal = NotCalled
    /\ ret = FALSE
    /\ sinkCalls = <<>>
    /\ log = <<>>
    /\ escaped = FALSE
    /\ norm = <<>>

\* scrape_multiple_pages: scraped_data = {}; for url in urls:
StartScraping ==
    /\ pc = "idle"
    /\ caller = "run_agent"
    /\ pc' = "scrape"
    /\ page' = 1
    /\ scraped' = <<>>
    /\ UNCHANGED <<caller, events, idx, results, valid, gcal, ret, sinkCalls,
                   log, escaped, norm, urls, demo, reply, summary, input>>

\* scraped_data[url] = self.scrape_webpage(url)
ScrapePage ==
    /\ pc = "scrape"
    /\ page <= Len(urls)
    /\ \E fetch \in FetchOutcomes, long \in BOOLEAN :
        IF fetch = "raise" /\ ~CaughtBy_scrape_webpage("Exception")
        THEN /\ pc' = "raised"
             /\ escaped' = TRUE
             /\ UNCHANGED <<page, scraped>>
        ELSE /\ scraped' = SetItem(scraped, urls[page], Content(fetch, long))
             /\ page' = page + 1
             /\ UNCHANGED <<pc, escaped>>
    /\ UNCHANGED <<caller, events, idx, results, valid, gcal, ret, sinkCalls,
                   log, norm, urls, demo, reply, summary, input>>

\* events = self.extract_events_with_gemini(scraped_content)
Extract ==
    /\ pc = "scrape"
    /\ page > Len(urls)
    /\ IF demo
       THEN /\ reply' = "demo"
            /\ events' = generate_demo_events(scraped)
            /\ pc' = "extracted"
            /\ UNCHANGED escaped
       ELSE \E r \in ExtractorReplies :
            /\ reply' = r.kind
            /\ IF r.kind = "raise" /\ ~CaughtBy_extract_events(r.exc)
               THEN pc' = "raised" /\ escaped' = TRUE /\ events' = events
               ELSE pc' = "extracted" /\ escaped' = escaped
                    /\ events' = r.events
    /\ input' = events'
    /\ UNCHANGED <<caller, idx, results, valid, gcal, ret, sinkCalls, log,
                   norm, urls, page, scraped, demo, summary>>

\* results = self.process_events(events)
ProcessExtracted ==
    /\ pc = "extracted"
    /\ pc' = "loop"
    /\ idx' = 1
    /\ results' = NoResults
    /\ UNCHANGED agentVars
    /\ UNCHANGED <<caller, events, valid, gcal, ret, sinkCalls, log, escaped,
                   norm>>

SummaryCountingPages ==
    [urls_processed |-> Cardinality(DOMAIN scraped),
     events_found |-> Len(events),
     events_added_successfully |-> results.successful,
     events_failed |-> results.failed,
     extracted_events |-> events]

\* the summary dict of lines 259-265; extracted_events is the list events
\* itself, with its records as they are now
Summary ==
    [urls_processed |-> Len(urls),
     events_found |-> Len(events),
     events_added_successfully |-> results.successful,
     events_failed |-> results.failed,
     extracted_events |-> events]

\* return summary
Summarize ==
    /\ pc = "done"
    /\ caller = "run_agent"
    /\ summary' = Return(Summary)
    /\ pc' = "returned"
    /\ UNCHANGED <<caller, events, idx, results, valid, gcal, ret, sinkCalls,
                   log, escaped, norm, urls, page, scraped, demo, reply,
                   input>>

NextAgent ==
    \/ StartScraping
    \/ ScrapePage
    \/ Extract
    \/ ProcessExtracted
    \/ NextEvent
    \/ Validate
    \/ Format
    \/ Sink
    \/ Count
    \/ ReturnResults
    \/ Summarize

SpecAgent == InitAgent /\ [][NextAgent]_vars

\* run_agent is one sequential call: a statement that is reached is executed
SpecAgentRuns == SpecAgent /\ WF_vars(NextAgent)

-----------------------------------------------------------------------------
(* Vocabulary of the properties.                                           *)

\* the record the batch loop is handling
Current == events[idx]

\* validate_event_data has returned or raised for Current
AfterValidate == valid # NotCalled /\ pc \in {"format", "sink", "count", "raised"}

\* format_event_for_gcal has returned or raised for Current
AfterFormat == gcal # NotCalled /\ pc \in {"sink", "count", "raised"}

\* format_event_for_gcal has returned a normalized event for Current
Normalized == AfterFormat /\ gcal.exc = "none"

Present(e, k) == k \in DOMAIN e

NonEmpty(v) == v \notin {PyNone, PyStr(<<>>), PyList(<<>>)}

\* key k of e holds a non-empty value
Given(e, k) == Present(e, k) /\ NonEmpty(e[k])

ParsesAsIsoDate(v) == v.t = "str" /\ fromisoformat(v).exc = "none"

Without(e, k) == [x \in DOMAIN e \ {k} |-> e[x]]

Put(e, k, v) == [x \in DOMAIN e \cup {k} |-> IF x = k THEN v ELSE e[x]]

OtherFields == Fields \ {"title", "start_date"}

OtherValues == {PyNone, PyStr(<<>>), TwoPm, TimeStr(14, 0), Jun1, GreatTalk,
                PyList(<<"a">>), PyInt(<<"7">>)}

\* s is ten characters DDDD-DD-DD
CalendarDateShape(s) ==
    /\ Len(s) = 10
    /\ AllDigits(s, 1, 4) /\ s[5] = "-"
    /\ AllDigits(s, 6, 7) /\ s[8] = "-"
    /\ AllDigits(s, 9, 10)

\* s, of that shape, names a day of the calendar
RealCalendarDate(s) ==
    /\ Num(s, 1, 4) \in 1..9999
    /\ Num(s, 6, 7) \in 1..12
    /\ Num(s, 9, 10) \in 1..DaysInMonth(Num(s, 1, 4), Num(s, 6, 7))

RECURSIVE DaysBeforeMonth(_, _)
DaysBeforeMonth(y, m) ==
    IF m = 1 THEN 0 ELSE DaysBeforeMonth(y, m - 1) + DaysInMonth(y, m - 1)

\* the proleptic Gregorian ordinal of a date, and an instant counted in hours
Ordinal(y, m, d) ==
    LET p == y - 1 IN
    (p * 365) + (p \div 4) - (p \div 100) + (p \div 400)
    + DaysBeforeMonth(y, m) + d

HourInstant(dt) == (Ordinal(dt.year, dt.month, dt.day) * 24) + dt.hour

IsTimed(when) == DOMAIN when = {"dateTime", "timeZone"}

IsAllDay(when) == DOMAIN when = {"date"}

-----------------------------------------------------------------------------
C2_RejectsNonCalendarDates ==
    ( /\ AfterValidate
      /\ IsDict(Current)
      /\ Present(Current, "start_date")
      /\ Current["start_date"].t = "str"
      /\ ~( /\ CalendarDateShape(Current["start_date"].s)
            /\ RealCalendarDate(Current["start_date"].s) ) )
    => valid = Return(FALSE)

(* C3: when a validated record has start_time set and no end_time, the     *)
(* normalized event is timed at both ends and its end instant is its start *)
(* instant plus one hour exactly, whatever end_date says.                  *)
C3_DefaultEndIsStartPlusOneHour ==
    ( /\ Normalized
      /\ Truthy(Get(Current, "start_time", PyNone))
      /\ ~Truthy(Get(Current, "end_time", PyNone)) )
    => LET g == gcal.val IN
       /\ IsTimed(g.start)
       /\ IsTimed(g.end)
       /\ LET a == fromisoformat(g.start.dateTime)
              b == fromisoformat(g.end.dateTime)
          IN  /\ a.exc = "none"
              /\ b.exc = "none"
              /\ HourInstant(b.dt) = HourInstant(a.dt) + 1
              /\ b.dt.minute = a.dt.minute
              /\ b.dt.second = a.dt.second

\* 2025-12-31 23:30 with an end_date of its own: the hour crosses the year
C3_Witness ==
    /\ Normalized
    /\ Current["start_date"] = DateStr(2025, 12, 31)
    /\ Get(Current, "start_time", PyNone) = TimeStr(23, 30)
    /\ Get(Current, "end_date", PyNone) = DateStr(2025, 7, 6)
    /\ ~Present(Current, "end_time")
    /\ gcal.val.end.dateTime =
           PyStr(<<"2", "0", "2", "6", "-", "0", "1", "-", "0", "1", "T",
                   "0", "0", ":", "3", "0", ":", "0", "0">>)

(* C4: a validated record with neither start_time nor end_time normalizes  *)
(* to an all-day schedule, start the date start_date and end the date      *)
(* end_date, with start_date standing in whenever the record carries no    *)
(* end_date value (the key is missing or holds None).                      *)
C4_AllDayDefaultsEndDate ==
    ( /\ Normalized
      /\ ~Truthy(Get(Current, "start_time", PyNone))
      /\ ~Truthy(Get(Current, "end_time", PyNone)) )
    => LET e == Current
           end_date == IF Present(e, "end_date") /\ e["end_date"] # PyNone
                       THEN e["end_date"]
                       ELSE e["start_date"]
       IN  /\ gcal.val.start = AllDay(e["start_date"])
           /\ gcal.val.end = AllDay(end_date)

(* C5: a validated record without start_time normalizes to an all-day      *)
(* schedule whatever its end_time: start and end are both dates.           *)
C5_NoStartTimeIsAllDay ==
    ( /\ Normalized
      /\ ~Truthy(Get(Current, "start_time", PyNone)) )
    => /\ IsAllDay(gcal.val.start)
       /\ IsAllDay(gcal.val.end)

-----------------------------------------------------------------------------
(* Batch counters.                                                         *)

\* the verdict of the sink on record k, "none" when the sink never saw it
SinkVerdict(k) ==
    IF \E c \in 1..Len(sinkCalls) : sinkCalls[c].rec = k
    THEN sinkCalls[CHOOSE c \in 1..Len(sinkCalls) : sinkCalls[c].rec = k].outcome
    ELSE "none"

\* record k fails validation, fails normalization or is refused by the sink
FailsRecord(k) ==
    \/ ~IsDict(events[k])
    \/ validate_event_data(events[k]) # Return(TRUE)
    \/ format_event_for_gcal(events[k]).exc # "none"
    \/ SinkVerdict(k) # "True"

FailedAmong(n) == Cardinality({k \in 1..n : FailsRecord(k)})

(* C6: the counters returned for a batch of N records add up to N, failed  *)
(* is the number K of records that fail validation or normalization or are *)
(* refused by the sink, and successful is N - K; while the loop runs the   *)
(* same holds of the records handled so far.                               *)
C6_CountersAddUp ==
    /\ pc = "done" =>
           /\ results.successful + results.failed = Len(events)
           /\ results.failed = FailedAmong(Len(events))
           /\ results.successful = Len(events) - FailedAmong(Len(events))
    /\ pc = "loop" =>
           /\ results.successful + results.failed = idx - 1
           /\ results.failed = FailedAmong(idx - 1)

\* a batch of MaxBatch records of which the sink refused the first
C6_Witness ==
    /\ pc = "done"
    /\ Len(events) = MaxBatch
    /\ SinkVerdict(1) = "False"
    /\ results.failed >= 1
    /\ results.successful >= 1

(* C7: no exception leaves the batch loop; each record, whatever became of *)
(* the records before it, is handled and ends in exactly one count; and    *)
(* the loop stops nowhere but at its return.                               *)
C7_EveryRecordAttempted ==
    /\ ~escaped
    /\ pc # "raised"
    /\ pc \in {"loop", "done"} =>
           /\ Len(log) = results.successful + results.failed
           /\ results.failed = Cardinality({k \in 1..Len(log) : log[k] # "added"})
    /\ pc = "done" => Len(log) = Len(events)
    /\ (caller \in BatchCallers /\ pc # "done") => ENABLED Next

\* the sink raised on the first record and the second was still added
C7_Witness ==
    /\ pc = "done"
    /\ caller = "process_events"
    /\ Len(log) = 2
    /\ log[1] = "sink_raised"
    /\ log[2] = "added"
    /\ results = [successful |-> 1, failed |-> 1]

-----------------------------------------------------------------------------
\* v is a well-formed HH:MM string
WellFormedTime(v) ==
    /\ v.t = "str"
    /\ Len(v.s) = 5
    /\ AllDigits(v.s, 1, 2) /\ v.s[3] = ":" /\ AllDigits(v.s, 4, 5)
    /\ Num(v.s, 1, 2) <= 23
    /\ Num(v.s, 4, 5) <= 59

\* key k of e holds a time that is not HH:MM
MalformedTime(e, k) == Given(e, k) /\ ~WellFormedTime(e[k])

(* C8: normalization of a validated record fails with a format error       *)
(* whenever its start_time or its end_time is present and not a            *)
(* well-formed HH:MM string, so the record never reaches the sink.         *)
C8_MalformedTimeFailsNormalization ==
    ( /\ AfterFormat
      /\ MalformedTime(Current, "start_time") \/ MalformedTime(Current, "end_time") )
    => /\ gcal = Raise("ValueError")
       /\ pc # "sink"

(* C9: two calls of format_event_for_gcal on the same record return the    *)
(* same normalized event, whatever was normalized in between.              *)
C9_NormalizeTwiceSame ==
    \A a, b \in 1..Len(norm) :
        norm[a].rec = norm[b].rec => norm[a].out = norm[b].out

(* C10: normalization succeeds and the normalized description is the       *)
(* record's description ("" when it has none), followed by                 *)
(* "\n\nSource: " and the url exactly when url is present and non-empty.   *)
C10_DescriptionWithSource ==
    ( /\ AfterFormat
      /\ EndOf(Current).exc = "none"
      /\ Get(Current, "description", PyNone).t \in {"str", "NoneType"} )
    => LET e == Current
           description == IF Given(e, "description") THEN e["description"].s
                          ELSE <<>>
           suffix == IF Given(e, "url") THEN SourcePrefix \o Str(e["url"])
                     ELSE <<>>
       IN  /\ gcal.exc = "none"
           /\ gcal.val.description = PyStr(description \o suffix)

-----------------------------------------------------------------------------
Range(f) == {f[i] : i \in DOMAIN f}

SummaryKeys ==
    {"urls_processed", "events_found", "events_added_successfully",
     "events_failed", "extracted_events"}

\* no exception has left run_agent, and it is not stuck before its return
C11_NoFailureReachesCaller ==
    caller = "run_agent" =>
        /\ ~escaped
        /\ pc # "raised"
        /\ pc # "returned" => summary = NotCalled /\ ENABLED NextAgent
        /\ pc = "returned" =>
               /\ summary.exc = "none"
               /\ DOMAIN summary.val = SummaryKeys
        /\ (pc \in {"extracted", "returned"} /\ reply \in {"raise", "no_json"})
               => events = <<>>
        /\ pc \in {"extracted", "returned"} => DOMAIN scraped = Range(urls)

C12_ExtractedEventsAsExtracted ==
    (caller = "run_agent" /\ pc = "returned") =>
        summary.val.extracted_events = input

(* C13: validate_event_data never raises: for every candidate record, one  *)
(* whose start_date is a non-empty value the date parser rejects with any  *)
(* kind of exception (a number, a list) included, the call returns, and it *)
(* returns False when the parser rejected start_date.                      *)
C13_ValidateNeverRaises ==
    (AfterValidate /\ IsDict(Current)) =>
        /\ valid.exc = "none"
        /\ (Given(Current, "title") /\ Given(Current, "start_date")
              /\ ~ParsesAsIsoDate(Current["start_date"]))
               => valid = Return(FALSE)

\* the sink calls made for record k
SinkCallsFor(k) == {c \in 1..Len(sinkCalls) : sinkCalls[c].rec = k}

\* the stages at which a record ends before the sink is reached
EndsBeforeSink == {"not_a_dict", "invalid", "validate_raised", "format_raised"}

(* C14: within a batch the records are handled in input order; the sink is *)
(* invoked for a record only after validate returned True and normalize    *)
(* returned an event for that same record, with that event, at most once   *)
(* per record and before the next record is validated; it is never invoked *)
(* for a record that failed validation or normalization.                   *)
C14_SinkOnlyAfterValidateAndNormalize ==
    caller \in BatchCallers =>
        /\ \A c \in 1..Len(sinkCalls) :
               LET k == sinkCalls[c].rec IN
               /\ k \in 1..Len(input)
               /\ k <= idx
               /\ k = idx => pc \in {"count", "raised"}
               /\ IsDict(input[k])
               /\ validate_event_data(input[k]) = Return(TRUE)
               /\ format_event_for_gcal(input[k]) = Return(sinkCalls[c].event)
        /\ \A c, d \in 1..Len(sinkCalls) :
               c < d => sinkCalls[c].rec < sinkCalls[d].rec
        /\ pc = "sink" =>
               /\ valid = Return(TRUE)
               /\ gcal.exc = "none"
               /\ SinkCallsFor(idx) = {}
        /\ pc = "format" => valid = Return(TRUE) /\ gcal = NotCalled
        /\ pc = "validate" => valid = NotCalled /\ gcal = NotCalled
        /\ pc \in {"loop", "validate", "format", "sink"} => Len(log) = idx - 1
        /\ pc \in {"count", "raised"} => Len(log) = idx
        /\ \A k \in 1..Len(log) :
               /\ log[k] \in EndsBeforeSink => SinkCallsFor(k) = {}
               /\ log[k] \notin EndsBeforeSink => Cardinality(SinkCallsFor(k)) = 1

C14_Witness ==
    /\ caller \in BatchCallers
    /\ pc = "done"
    /\ log = <<"invalid", "added">>
    /\ Len(sinkCalls) = 1
    /\ sinkCalls[1].rec = 2

(* C15: every summary returned by run_agent is consistent: events_found is *)
(* the length of extracted_events, events_added_successfully plus          *)
(* events_failed is events_found, and urls_processed is the length of the  *)
(* URL sequence handed in, also when a URL occurs twice in it or a fetch   *)
(* failed.                                                                 *)
C15_SummaryConsistent ==
    (caller = "run_agent" /\ pc = "returned") =>
        LET s == summary.val IN
        /\ s.events_found = Len(s.extracted_events)
        /\ s.events_added_successfully + s.events_failed = s.events_found
        /\ s.urls_processed = Len(urls)

C15_Witness ==
    /\ caller = "run_agent"
    /\ pc = "returned"
    /\ Len(urls) = 2
    /\ urls[1] = urls[2]
    /\ \E k \in DOMAIN scraped : scraped[k].kind = "error"
    /\ summary.val.events_found = 2
    /\ summary.val.events_failed = 1

\* the instant a timed schedule entry names, as the ISO parser reads it
Instant(when) == fromisoformat(when["dateTime"])

\* e is not earlier than s
NotBefore(e, s) ==
    \/ HourInstant(e) > HourInstant(s)
    \/ /\ HourInstant(e) = HourInstant(s)
       /\ \/ e.minute > s.minute
          \/ e.minute = s.minute /\ e.second >= s.second

\* in a timed schedule whose two instants are readable the end is not before
\* the start
EndNotBeforeStart(g) ==
    (IsTimed(g.start) /\ IsTimed(g.end)
       /\ Instant(g.start).exc = "none" /\ Instant(g.end).exc = "none")
        => NotBefore(Instant(g.end).dt, Instant(g.start).dt)

(* C16: for every record that validates and normalizes to a timed schedule *)
(* (start_time and end_time both given) the normalized end instant is not  *)
(* earlier than the normalized start instant, and no event whose end       *)
(* precedes its start is submitted to the sink and counted successful.     *)
C16_EndNeverBeforeStart ==
    /\ (Normalized /\ IsDict(Current) /\ valid = Return(TRUE)
          /\ Given(Current, "start_time") /\ Given(Current, "end_time"))
           => EndNotBeforeStart(gcal.val)
    /\ \A c \in 1..Len(sinkCalls) :
           sinkCalls[c].outcome = "True" => EndNotBeforeStart(sinkCalls[c].event)

(* C17: validation, normalization and batch processing never modify the    *)
(* candidate records they are given: at every step, and so after           *)
(* process_events has returned, every record of the input sequence has     *)
(* exactly the fields and values it had when it was handed in; its         *)
(* description carries no appended Source suffix.                          *)
C17_RecordsNotModified ==
    /\ Len(events) = Len(input)
    /\ \A k \in 1..Len(events) : events[k] = input[k]

====
